---- MODULE Spec2Model ----
(***************************************************************************)
(* State-machine model of the scholargy-frontend session bootstrap:        *)
(* AuthProvider (session store + profile reconciler), the API client      *)
(* functions it calls, and the route gate (the Main component).           *)
(*                                                                         *)
(* The repository holds several revisions of the same files.  The         *)
(* revision of Main in use is part of the state (router), fixed at Init;   *)
(* the API client functions take their revision as a parameter.           *)
(***************************************************************************)
EXTENDS Integers, Sequences, FiniteSets, Bags, TLC

(***************************************************************************)
(* Bounds                                                                  *)
(***************************************************************************)
\* Number of provider-level auth events emitted in one run.
MaxEvents == 2

\* Two accounts: u1 signs in through Google (full metadata), u2 by e-mail
\* (no user_metadata, no app_metadata.provider).
Users == {"u1", "u2"}
NoUser == "null"

(***************************************************************************)
(* JavaScript values and strings.  A string is a sequence of characters   *)
(* so that trim() and includes() are computed, not assumed.               *)
(***************************************************************************)
Undefined == [t |-> "undefined"]
Null == [t |-> "null"]
Str(s) == [t |-> "string", s |-> s]
Num(n) == [t |-> "number", n |-> n]

\* ToBoolean, as applied by `!!x`, `x || y` and `x && y`.
Truthy(v) ==
    CASE v.t = "undefined" -> FALSE
      [] v.t = "null" -> FALSE
      [] v.t = "string" -> Len(v.s) > 0
      [] v.t = "number" -> v.n # 0
      [] OTHER -> TRUE

\* a || b
JsOr(a, b) == IF Truthy(a) THEN a ELSE b

RECURSIVE TrimStart(_)
TrimStart(s) == IF s # <<>> /\ Head(s) = " " THEN TrimStart(Tail(s)) ELSE s

RECURSIVE TrimEnd(_)
TrimEnd(s) ==
    IF s # <<>> /\ s[Len(s)] = " " THEN TrimEnd(SubSeq(s, 1, Len(s) - 1)) ELSE s

\* String.prototype.trim
Trim(s) == TrimEnd(TrimStart(s))

\* String.prototype.includes
Includes(s, sub) ==
    \E i \in 0..(Len(s) - Len(sub)) : SubSeq(s, i + 1, i + Len(sub)) = sub

RECURSIVE Digits(_)
\* Decimal rendering of a non-negative integer inside a template literal.
Digits(n) ==
    IF n < 10
    THEN <<(<<"0","1","2","3","4","5","6","7","8","9">>)[n + 1]>>
    ELSE Digits(n \div 10) \o Digits(n % 10)

\* value.toString()
ToStr(v) ==
    CASE v.t = "string" -> v.s
      [] v.t = "number" -> Digits(v.n)
      [] OTHER -> <<>>

\* The filter of calculateProfileCompleteness (DashboardPage): whether a
\* required profile field counts as filled in.
FieldCompleted(value) ==
    /\ Truthy(value)
    /\ Trim(ToStr(value)) # <<>>
    /\ ~(value.t = "string" /\ value.s = <<"N", "/", "A">>)

(***************************************************************************)
(* API client (services/api.js).  A response is what fetch() and           *)
(* response.json() deliver: a network failure, or a status with a body.   *)
(* body.error is Undefined when the body carries no error field or is not *)
(* JSON (response.json().catch(() => ({}))).                               *)
(***************************************************************************)
Msg_HttpError == <<"H","T","T","P"," ","e","r","r","o","r","!"," ","s","t","a","t","u","s",":"," ">>
Msg_AuthFailed == <<"A","u","t","h","e","n","t","i","c","a","t","i","o","n"," ","f","a","i","l","e","d","."," ","P","l","e","a","s","e"," ","l","o","g"," ","i","n"," ","a","g","a","i","n",".">>
Msg_AuthRequired == <<"A","u","t","h","e","n","t","i","c","a","t","i","o","n"," ","r","e","q","u","i","r","e","d","."," ","P","l","e","a","s","e"," ","l","o","g"," ","i","n"," ","a","g","a","i","n",".">>
Msg_FailedToFetch == <<"F","a","i","l","e","d"," ","t","o"," ","f","e","t","c","h">>
Msg_BadJson == <<"U","n","e","x","p","e","c","t","e","d"," ","e","n","d"," ","o","f"," ","J","S","O","N"," ","i","n","p","u","t">>
Msg_NotFoundBody == <<"P","r","o","f","i","l","e"," ","n","o","t"," ","f","o","u","n","d">>
Msg_ServerError == <<"I","n","t","e","r","n","a","l"," ","s","e","r","v","e","r"," ","e","r","r","o","r">>
Msg_Upstream404 == <<"U","p","s","t","r","e","a","m"," ","r","e","t","u","r","n","e","d"," ","4","0","4">>
Code404 == <<"4","0","4">>

ApiRevs == {"api.js", "part_006"}
\* The revision AuthProvider is linked against (src/src/services/api.js).
ApiInUse == "api.js"

\* A response body that is not JSON.
NotJson == [t |-> "not-json"]
\* A profile document as the backend serves it.
Profile(u, gpa) == [t |-> "object", userId |-> u, gpa |-> gpa]

NetworkFailure == [kind |-> "network"]
Http(status, error, data) ==
    [kind |-> "http", status |-> status, error |-> error, data |-> data]

\* response.ok
ResponseOk(resp) == resp.status >= 200 /\ resp.status <= 299

\* getAuthHeaders without the test for a missing token.
getAuthHeaders_Anonymous(rev, token) ==
    [ok |-> TRUE, Authorization |-> <<"Bearer ", token>>]

\* getAuthHeaders: the Authorization header, or the error it throws when the
\* provider session carries no access token.
getAuthHeaders(rev, token) ==
    IF token = NoUser
    THEN [ok |-> FALSE,
          message |-> IF rev = "api.js" THEN Msg_AuthFailed ELSE Msg_AuthRequired]
    ELSE [ok |-> TRUE, Authorization |-> <<"Bearer ", token>>]

\* The generic message, whatever the body says.
HttpErrorMessage_Generic(resp) == Msg_HttpError \o Digits(resp.status)

\* The message of the Error thrown for a non-2xx response.
HttpErrorMessage(resp) ==
    JsOr(resp.error, Str(Msg_HttpError \o Digits(resp.status))).s

\* makeRequest(endpoint, options, requireAuth): the value returned or the
\* error thrown, with `sent` telling whether fetch() was called.
makeRequest(rev, requireAuth, token, resp) ==
    IF requireAuth /\ ~getAuthHeaders(rev, token).ok
    THEN [ok |-> FALSE, message |-> getAuthHeaders(rev, token).message,
          sent |-> FALSE]
    ELSE IF resp.kind = "network"
    THEN [ok |-> FALSE, message |-> Msg_FailedToFetch, sent |-> TRUE]
    ELSE IF ~ResponseOk(resp)
    THEN [ok |-> FALSE, message |-> HttpErrorMessage(resp), sent |-> TRUE]
    ELSE IF resp.data.t = "not-json"
    THEN [ok |-> FALSE, message |-> Msg_BadJson, sent |-> TRUE]
    ELSE [ok |-> TRUE, value |-> resp.data, sent |-> TRUE]

\* getProfile(userId)
getProfile(rev, token, resp) ==
    LET r == makeRequest(rev, TRUE, token, resp) IN
    IF rev = "part_006" THEN r
    ELSE IF r.ok THEN r
    ELSE IF Includes(r.message, Code404)
    THEN [ok |-> TRUE, value |-> Null, sent |-> r.sent]
    ELSE r

\* createProfile(userId, profileData)
createProfile(rev, token, resp) == makeRequest(rev, TRUE, token, resp)

\* The headers of the request makeRequest sends (no caller passes
\* options.headers), defined when getAuthHeaders did not throw.
RequestHeaders(rev, requireAuth, token) ==
    IF requireAuth
    THEN [ContentType |-> "application/json",
          Authorization |-> getAuthHeaders(rev, token).Authorization]
    ELSE [ContentType |-> "application/json"]

\* try { return await makeRequest(...) } catch { return fallback }
OrFallback(r, fallback) ==
    IF r.ok THEN r ELSE [ok |-> TRUE, value |-> fallback, sent |-> r.sent]

\* An export the revision does not have.
NotExported == [ok |-> FALSE, message |-> <<>>, sent |-> FALSE]

EmptyArray == [t |-> "array", items |-> <<>>]

updateProfile(rev, token, resp) == makeRequest(rev, TRUE, token, resp)

saveProfile(rev, token, resp) == makeRequest(rev, TRUE, token, resp)

deleteProfile(rev, token, resp) ==
    IF rev = "api.js" THEN makeRequest(rev, TRUE, token, resp)
    ELSE NotExported

trackApplication(rev, token, resp) ==
    IF rev = "api.js" THEN makeRequest(rev, TRUE, token, resp)
    ELSE NotExported

saveScholarship(rev, token, resp) == makeRequest(rev, TRUE, token, resp)

removeSavedScholarship(rev, token, resp) ==
    makeRequest(rev, TRUE, token, resp)

getUserStats(rev, token, resp) ==
    IF rev = "api.js"
    THEN OrFallback(makeRequest(rev, TRUE, token, resp),
                    [t |-> "object", activeApps |-> Num(0),
                     potentialAid |-> Num(0)])
    ELSE makeRequest(rev, TRUE, token, resp)

searchInstitutions(rev, token, resp) ==
    IF rev = "api.js"
    THEN OrFallback(makeRequest(rev, FALSE, token, resp),
                    [t |-> "object", data |-> EmptyArray,
                     pagination |-> [page |-> Num(1), limit |-> Num(20),
                                     totalPages |-> Num(1),
                                     totalDocuments |-> Num(0)]])
    ELSE makeRequest(rev, FALSE, token, resp)

getTopMatches(rev, token, resp) ==
    OrFallback(makeRequest(rev, FALSE, token, resp),
               IF rev = "api.js"
               THEN [t |-> "object", data |-> EmptyArray]
               ELSE [t |-> "object", results |-> EmptyArray])

getScholarshipSummary(rev, token, resp) ==
    IF rev = "api.js"
    THEN OrFallback(makeRequest(rev, FALSE, token, resp),
                    [t |-> "object", data |-> EmptyArray])
    ELSE makeRequest(rev, FALSE, token, resp)

getScholarshipStats(rev, token, resp) ==
    IF rev = "api.js"
    THEN makeRequest(rev, FALSE, token, resp)
    ELSE OrFallback(makeRequest(rev, FALSE, token, resp),
                    [t |-> "object", totalEligibleAmount |-> Num(0),
                     opportunities |-> EmptyArray])

getUpcomingDeadlines(rev, token, resp) ==
    IF rev = "api.js"
    THEN makeRequest(rev, FALSE, token, resp)
    ELSE OrFallback(makeRequest(rev, FALSE, token, resp),
                    [t |-> "object", deadlines |-> EmptyArray])

getNextStepsData(rev, token, resp) ==
    IF rev = "part_006" THEN makeRequest(rev, TRUE, token, resp)
    ELSE NotExported

(***************************************************************************)
(* Identity provider records (supabase session.user).                     *)
(***************************************************************************)
Opaque(x) == Str(<<x>>)

UserRecord(u) ==
    IF u = "u1"
    THEN [id |-> u, email |-> Opaque("u1@mail"),
          full_name |-> Opaque("U One"), avatar_url |-> Opaque("u1.png"),
          provider |-> Opaque("google"), profile |-> Undefined]
    ELSE [id |-> u, email |-> Opaque("u2@mail"),
          full_name |-> Undefined, avatar_url |-> Undefined,
          provider |-> Undefined,
          profile |-> Profile(u, Str(<<"3", ".", "5">>))]

(***************************************************************************)
(* State                                                                   *)
(***************************************************************************)
VARIABLES
    router,             \* revision of Main in use
    provSession,        \* the provider client's current session (a user or null)
    initPc,             \* getInitialSession: "pending" until getSession settles
    initStored,         \* the stored session the pending getSession() has read
    events,             \* auth events emitted and not yet handled
    emitted,            \* number of auth events emitted so far
    user,               \* AuthProvider: useState user
    profile,            \* AuthProvider: useState profile
    loading,            \* AuthProvider: useState loading
    isProfileComplete,  \* AuthProvider: useState isProfileComplete
    effectPending,      \* the [user] effect is scheduled and has not run
    runs,               \* manageUserProfile invocations suspended at an await
    backend,            \* the backend's profile store, by userId
    requests,           \* POST /profile requests sent (a bag)
    lastCall,           \* the API call that settled in the latest step
    path,               \* window.location.pathname, as segments
    view,               \* Main (App.js): useState view
    dash,               \* DashboardPage: its state and the position of its load
    cb,                 \* AuthCallback: the URL it was opened with and its state
    mirror,             \* localStorage item "user"
    client,             \* utils/supabase: the exported client, once loaded
    provider,           \* revision of AuthProvider in use
    subscription,       \* what onAuthStateChange(handler) gave the provider
    store,              \* what the latest Session Store operation gave its caller
    loads,              \* DashboardPage: the loadDashboardData calls, in start order
    writer              \* DashboardPage: the call whose setter wrote each section last

vars == <<router, provSession, initPc, initStored, events, emitted, user,
          profile, loading, isProfileComplete, effectPending, runs, backend,
          requests, lastCall, path, view, dash, cb, mirror, client, provider,
          subscription, store, loads, writer>>

authVars == <<user, profile, loading, isProfileComplete, effectPending>>
navVars == <<path, view, cb>>
revVars == <<router>>
pageVars == <<dash, loads, writer>>
storeVars == <<mirror>>
bootVars == <<client, provider, subscription>>
opVars == <<store>>

NoProfile == Null

(***************************************************************************)
(* Route gate: the Main component, in its three revisions.                *)
(*   part_012     <Routes> per gate state                                 *)
(*   AuthContext  the same with /reset-password for signed-out users      *)
(*   App          a switch on the `view` state (src/src/App.js)           *)
(***************************************************************************)
RouterRevs == {"part_012", "AuthContext", "App"}

Page(name) == [el |-> "page", name |-> name]
Navigate(to) == [el |-> "Navigate", to |-> to]

\* Locations a browser may request.
AllPaths ==
    {<<>>, <<"login">>, <<"auth", "callback">>, <<"reset-password">>,
     <<"student-profile">>, <<"dashboard">>, <<"scholarships">>,
     <<"matching">>, <<"forecaster">>, <<"compare">>, <<"studentvue">>,
     <<"report", "c1">>, <<"profile", "c1">>, <<"report">>, <<"profile">>,
     <<"nope">>}

\* Locations requested in a run of the model.
RequestPaths == {<<"auth", "callback">>, <<"dashboard">>, <<"nope">>}

\* Views the Layout's navigation selects in a run of the model.
RequestViews == {"dashboard", "studentProfile"}

\* The revisions of Main that run in the model; Main of AuthContext.js
\* differs from part_012 by one route and is checked through MainRoutes.
RoutersInUse == {"part_012", "App"}

\* <Route path="/a/:param"> against a location.
RouteMatches(pattern, p) ==
    /\ Len(pattern) = Len(p)
    /\ \A i \in 1..Len(p) : pattern[i] = ":collegeId" \/ pattern[i] = p[i]

\* <Routes>: the element of the first route that matches, `*` last.
Routes(table, fallback, p) ==
    IF \E i \in 1..Len(table) : RouteMatches(table[i][1], p)
    THEN Page(table[CHOOSE i \in 1..Len(table) :
                  /\ RouteMatches(table[i][1], p)
                  /\ \A j \in 1..(i - 1) : ~RouteMatches(table[j][1], p)][2])
    ELSE Navigate(fallback)

\* The signed-out table without the route of the OAuth callback.
UnauthenticatedRoutes_NoCallback(rev) ==
    << <<(<<"login">>), "LoginPage">> >>

UnauthenticatedRoutes(rev) ==
    <<  <<(<<"auth", "callback">>), "AuthCallback">>,
        <<(<<"login">>), "LoginPage">>  >>
    \o (IF rev = "AuthContext"
        THEN << <<(<<"reset-password">>), "ResetPasswordPage">> >>
        ELSE <<>>)

IncompleteRoutes == << <<(<<"student-profile">>), "StudentProfilePage">> >>

CompleteRoutes ==
    <<  <<(<<"dashboard">>), "DashboardPage">>,
        <<(<<"student-profile">>), "StudentProfilePage">>,
        <<(<<"scholarships">>), "ScholarshipPage">>,
        <<(<<"matching">>), "MatchingPage">>,
        <<(<<"forecaster">>), "CareerForecasterPage">>,
        <<(<<"compare">>), "CompareCollegesPage">>,
        <<(<<"studentvue">>), "StudentVuePage">>,
        <<(<<"report", ":collegeId">>), "ReportPage">>,
        <<(<<"profile", ":collegeId">>), "ProfilePage">>  >>

\* Main testing the completeness flag without testing the user first.
MainRoutes_SessionUnchecked(rev, ld, usr, complete, p) ==
    IF ld THEN Page("Loading")
    ELSE IF ~complete
    THEN Routes(IncompleteRoutes, <<"student-profile">>, p)
    ELSE Routes(CompleteRoutes, <<"dashboard">>, p)

\* Main without the incomplete-profile branch.
MainRoutes_NoProfileGate(rev, ld, usr, complete, p) ==
    IF ld THEN Page("Loading")
    ELSE IF usr = NoUser
    THEN Routes(UnauthenticatedRoutes(rev), <<"login">>, p)
    ELSE Routes(CompleteRoutes, <<"dashboard">>, p)

\* Main of part_012 and of AuthContext.js: what it renders at location p.
MainRoutes(rev, ld, usr, complete, p) ==
    IF ld THEN Page("Loading")
    ELSE IF usr = NoUser
    THEN Routes(UnauthenticatedRoutes(rev), <<"login">>, p)
    ELSE IF ~complete
    THEN Routes(IncompleteRoutes, <<"student-profile">>, p)
    ELSE Routes(CompleteRoutes, <<"dashboard">>, p)

Views ==
    {"dashboard", "scholarships", "matching", "forecaster", "compare",
     "studentVue", "profile", "report", "studentProfile", "authCallback",
     "login"}

\* The mount effect of Main (App.js): the view selected for the URL path.
ViewOfPath(p) ==
    CASE p = <<"auth", "callback">> -> "authCallback"
      [] p = <<"dashboard">> -> "dashboard"
      [] p = <<"scholarships">> -> "scholarships"
      [] p = <<"matching">> -> "matching"
      [] p = <<"forecaster">> -> "forecaster"
      [] p = <<"compare">> -> "compare"
      [] p = <<"studentvue">> -> "studentVue"
      [] p = <<"profile">> -> "profile"
      [] p = <<"report">> -> "report"
      [] OTHER -> "dashboard"

\* renderView of Main (App.js)
renderView(v) ==
    CASE v = "studentProfile" -> "StudentProfilePage"
      [] v = "scholarships" -> "ScholarshipPage"
      [] v = "matching" -> "MatchingPage"
      [] v = "forecaster" -> "CareerForecasterPage"
      [] v = "compare" -> "CompareCollegesPage"
      [] v = "studentVue" -> "StudentVuePage"
      [] v = "report" -> "ReportPage"
      [] v = "profile" -> "ProfilePage"
      [] OTHER -> "DashboardPage"

\* Main with the callback view tested before the loading flag.
MainApp_CallbackFirst(ld, usr, complete, v) ==
    IF v = "authCallback" THEN Page("AuthCallback")
    ELSE IF ld THEN Page("Loading")
    ELSE IF usr = NoUser THEN Page("LoginPage")
    ELSE IF ~complete /\ v # "studentProfile" THEN Page("StudentProfilePage")
    ELSE Page(renderView(v))

\* Main showing the login page to every user without a complete profile.
MainApp_LoginUnlessComplete(ld, usr, complete, v) ==
    IF ld THEN Page("Loading")
    ELSE IF v = "authCallback" THEN Page("AuthCallback")
    ELSE IF usr = NoUser \/ ~complete THEN Page("LoginPage")
    ELSE Page(renderView(v))

\* Main of src/src/App.js: what it renders for the view state v.
MainApp(ld, usr, complete, v) ==
    IF ld THEN Page("Loading")
    ELSE IF v = "authCallback" THEN Page("AuthCallback")
    ELSE IF usr = NoUser THEN Page("LoginPage")
    ELSE IF ~complete /\ v # "studentProfile" THEN Page("StudentProfilePage")
    ELSE Page(renderView(v))

\* What Main renders for a request (a location, or a view in App.js).
Main(rev, ld, usr, complete, p, v) ==
    IF rev = "App" THEN MainApp(ld, usr, complete, v)
    ELSE MainRoutes(rev, ld, usr, complete, p)

\* The element on screen in the current state.
Rendered == Main(router, loading, user, isProfileComplete, path, view)

\* <Navigate to=... replace />: where a request for p ends once the `*`
\* route has redirected it.
Landing(rev, ld, usr, complete, p) ==
    LET m == MainRoutes(rev, ld, usr, complete, p) IN
    IF m.el = "Navigate" THEN m.to ELSE p

IsPage(m, name) == m.el = "page" /\ m.name = name
IsRedirect(m, to) == m.el = "Navigate" /\ m.to = to

(***************************************************************************)
(* AuthCallback: part_004 (react-router, rendered by part_012) and        *)
(* part_005 (setView, rendered by App.js)                                  *)
(***************************************************************************)
CallbackRevs == {"part_004", "part_005"}

\* The revision of AuthCallback each Main renders.
CallbackOf(rev) == IF rev = "App" THEN "part_005" ELSE "part_004"

\* The error parameters of the callback URL: where they are encoded and
\* whether error_description accompanies error=access_denied.
NoUrlError == [enc |-> "none", description |-> FALSE]
UrlErrors ==
    {NoUrlError}
    \cup [enc : {"query", "fragment"}, description : BOOLEAN]

\* useState defaults of a mounted AuthCallback opened with `url`.
CallbackMounted(url) ==
    [url |-> url, error |-> <<>>, authLoading |-> TRUE, nav |-> "none"]

\* urlParams.get("error") of the revision: part_004 parses
\* window.location.hash, part_005 window.location.search.
AuthErrorParam(rev, url) ==
    IF url.enc = (IF rev = "part_004" THEN "fragment" ELSE "query")
    THEN Str(<<"access_denied">>)
    ELSE Null

\* urlParams.get("error_description"); part_005 does not read it.
ErrorDescriptionParam(rev, url) ==
    IF rev = "part_004" /\ url.enc = "fragment" /\ url.description
    THEN Str(<<"denied by user">>)
    ELSE Null

\* An effect that, once an error is set, no longer navigates when a user
\* appears.
AuthCallbackEffect_ErrorSticks(rev, ld, usr, complete, c) ==
    LET authError == AuthErrorParam(rev, c.url)
        description == ErrorDescriptionParam(rev, c.url)
    IN
    IF ld THEN [c EXCEPT !.nav = "none"]
    ELSE IF Truthy(authError)
    THEN [c EXCEPT !.error = <<"Authentication error: ">>
                                 \o JsOr(description, authError).s,
                   !.authLoading = (rev = "part_004" /\ c.authLoading),
                   !.nav = "none"]
    ELSE IF usr # NoUser /\ c.error = <<>>
    THEN [c EXCEPT !.nav = IF complete THEN "dashboard"
                           ELSE "student-profile"]
    ELSE [c EXCEPT !.error = <<"Authentication failed">>,
                   !.authLoading = (rev = "part_004" /\ c.authLoading),
                   !.nav = "none"]

\* The body of the effect of AuthCallback: the component state it leaves
\* and, in nav, the navigate()/setView() call it makes.
AuthCallbackEffect(rev, ld, usr, complete, c) ==
    LET authError == AuthErrorParam(rev, c.url)
        description == ErrorDescriptionParam(rev, c.url)
    IN
    IF ld THEN [c EXCEPT !.nav = "none"]
    ELSE IF Truthy(authError)
    THEN [c EXCEPT !.error = <<"Authentication error: ">>
                                 \o JsOr(description, authError).s,
                   !.authLoading = (rev = "part_004" /\ c.authLoading),
                   !.nav = "none"]
    ELSE IF usr # NoUser
    THEN [c EXCEPT !.nav = IF complete THEN "dashboard"
                           ELSE "student-profile"]
    ELSE [c EXCEPT !.error = <<"Authentication failed">>,
                   !.authLoading = (rev = "part_004" /\ c.authLoading),
                   !.nav = "none"]

\* What AuthCallback renders.
CallbackScreen(rev, c) ==
    IF rev = "part_004"
    THEN IF c.error # <<>> THEN "error" ELSE "processing"
    ELSE IF c.authLoading /\ c.error = <<>> THEN "processing"
    ELSE IF c.error # <<>> THEN "error"
    ELSE "success"

ViewOfNav(nav) == IF nav = "dashboard" THEN "dashboard" ELSE "studentProfile"

\* A render of Main at location p / view v with the values ld, usr,
\* complete of useAuth(), followed by the effects it schedules: a location
\* the gate does not serve is replaced by the gate's default, and a mounted
\* AuthCallback runs its effect and may navigate in turn.
Commit(ld, usr, complete, p, v) ==
    LET p1 == IF router = "App" THEN p
              ELSE Landing(router, ld, usr, complete, p)
        m == Main(router, ld, usr, complete, p1, v)
        c == IF IsPage(m, "AuthCallback")
             THEN AuthCallbackEffect(CallbackOf(router), ld, usr, complete, cb)
             ELSE CallbackMounted(cb.url)
    IN
    /\ cb' = IF c.nav = "none" THEN c ELSE CallbackMounted(cb.url)
    /\ path' = IF router = "App" \/ c.nav = "none" THEN p1
               ELSE Landing(router, ld, usr, complete, <<c.nav>>)
    /\ view' = IF router = "App" /\ c.nav # "none" THEN ViewOfNav(c.nav)
               ELSE v

\* Main re-renders after a state change of AuthProvider.
Rerender == Commit(loading', user', isProfileComplete', path, view)


\* The route gate's state under revision rev, read off what Main serves for
\* a request of the dashboard: the loading indicator, the signed-out table
\* (login), the incomplete-profile table (student profile) or the full one.
GateOf(rev, ld, usr, complete) ==
    LET m == Main(rev, ld, usr, complete, <<"dashboard">>, "dashboard") IN
    IF IsPage(m, "Loading") THEN "Loading"
    ELSE IF IsRedirect(m, <<"login">>) \/ IsPage(m, "LoginPage")
    THEN "Unauthenticated"
    ELSE IF IsRedirect(m, <<"student-profile">>)
            \/ IsPage(m, "StudentProfilePage")
    THEN "AuthenticatedIncomplete"
    ELSE "AuthenticatedComplete"

\* The gate state of the revision in use.
GateState == GateOf(router, loading, user, isProfileComplete)

(***************************************************************************)
(* Backend: the responses it can give.                                     *)
(***************************************************************************)
Absent == [t |-> "absent"]

\* What the store may hold for a user when the application starts.
BackendDocs(u) ==
    IF u = "u1"
    THEN {Absent, Profile(u, Str(<<"N", "/", "A">>)),
          Profile(u, Str(<<"3", ".", "5">>))}
    ELSE {Profile(u, Str(<<"3", ".", "5">>))}

\* GET /profile/:userId
ProfileResponses(u) ==
    {NetworkFailure}
    \cup {Http(500, e, Null) : e \in {Undefined, Str(Msg_Upstream404)}}
    \cup (IF backend[u].t = "absent"
          THEN {Http(404, e, Null) : e \in {Undefined, Str(Msg_NotFoundBody)}}
          ELSE {Http(200, Undefined, backend[u])})

(***************************************************************************)
(* AuthProvider (contexts/AuthContext.js)                                  *)
(***************************************************************************)
\* No API call settled in the latest step.
NoCall == [fn |-> "none"]
\* makeRequest threw before fetch(): there is no response.
Unsent == [kind |-> "unsent"]

\* The record of a settled call: its inputs and what it returned or threw.
Settled(fn, r, resp, res) ==
    [fn |-> fn, uid |-> r.uid,
     resp |-> IF res.sent THEN resp ELSE Unsent, result |-> res]

\* session?.access_token, as getAuthHeaders reads it when a request starts.
SessionToken == IF provSession = NoUser THEN NoUser ELSE "token"

\* setUser(x): React re-renders and schedules the [user] effect when the
\* value differs; every session delivers a fresh user object, so only
\* null -> null is a bail-out.
SetUser(x) ==
    /\ user' = x
    /\ effectPending' = (effectPending \/ x # NoUser \/ user # NoUser)

\* newProfileData of manageUserProfile
newProfileData(u) ==
    [email |-> UserRecord(u).email,
     fullName |-> UserRecord(u).full_name,
     avatarUrl |-> UserRecord(u).avatar_url,
     provider |-> JsOr(UserRecord(u).provider, Opaque("email")),
     gpa |-> Null]

\* The document the backend stores and returns for POST /profile.
CreatedProfile(u, data) == Profile(u, data.gpa)

\* POST /profile
CreateResponses(u) ==
    {NetworkFailure, Http(500, Str(Msg_ServerError), Null),
     Http(201, Undefined, CreatedProfile(u, newProfileData(u)))}

\* Completeness as the mere presence of a profile document.
ProfileComplete_Presence(userProfile) == userProfile.t = "object"

\* setIsProfileComplete(!!userProfile?.gpa)
ProfileComplete(userProfile) ==
    Truthy(IF userProfile.t = "object" THEN userProfile.gpa ELSE Undefined)

\* A try block that installs the profile and forgets the flag.
ReconcileDone_FlagNotUpdated(userProfile) ==
    /\ profile' = userProfile
    /\ UNCHANGED isProfileComplete

\* The try block of manageUserProfile completes with userProfile.
ReconcileDone(userProfile) ==
    /\ profile' = userProfile
    /\ isProfileComplete' = ProfileComplete(userProfile)

\* A catch block that clears the profile and leaves the flag as it was.
ReconcileCatch_KeepsFlag ==
    /\ profile' = NoProfile
    /\ UNCHANGED isProfileComplete

\* The catch block of manageUserProfile.
ReconcileCatch ==
    /\ profile' = NoProfile
    /\ isProfileComplete' = FALSE

\* The localStorage item "user": absent, or the userData handleAuthChange
\* wrote for a user (created_at left out).
NoMirror == [t |-> "absent"]

userData(u) ==
    [t |-> "object",
     email |-> UserRecord(u).email,
     name |-> JsOr(UserRecord(u).full_name, UserRecord(u).email),
     img_url |-> UserRecord(u).avatar_url,
     provider |-> JsOr(UserRecord(u).provider, Opaque("email"))]

\* What localStorage holds when the application starts: the item written
\* when the stored session was signed in.
StoredMirror(stored) ==
    IF stored = NoUser THEN NoMirror ELSE userData(stored)

\* handleAuthChange that leaves localStorage alone on SIGNED_OUT.
MirrorAfter_KeepsOnSignOut(event, session, m) ==
    IF event = "SIGNED_IN" /\ session # NoUser THEN userData(session) ELSE m

\* The localStorage part of handleAuthChange(event, session).
MirrorAfter(event, session, m) ==
    IF event = "SIGNED_IN" /\ session # NoUser THEN userData(session)
    ELSE IF event = "SIGNED_OUT" THEN NoMirror
    ELSE m

(***************************************************************************)
(* DashboardPage (part_003): loadDashboardData                             *)
(***************************************************************************)
\* The fetches of loadDashboardData in the order it awaits them, each named
\* by its key in the errors object.
DashSteps ==
    <<"collegeMatches", "scholarshipStats", "scholarshipSummary",
      "deadlines", "userStats", "nextSteps">>

DashKeys == {DashSteps[i] : i \in 1..Len(DashSteps)}

\* The API function behind each fetch.
DashFn(key) ==
    CASE key = "collegeMatches" -> "getTopMatches"
      [] key = "scholarshipStats" -> "getScholarshipStats"
      [] key = "scholarshipSummary" -> "getScholarshipSummary"
      [] key = "deadlines" -> "getUpcomingDeadlines"
      [] key = "userStats" -> "getUserStats"
      [] OTHER -> "getNextStepsData"

\* The component after mount, linked against revision rev of the API
\* client: useState defaults, no load started.
DashMounted(rev) ==
    [rev |-> rev, pc |-> 0, loading |-> TRUE, errors |-> {},
     sections |-> {}, calls |-> <<>>]

\* No call of loadDashboardData has written any section.
NoWriter == [key \in DashKeys |-> 0]

\* A call of loadDashboardData after its synchronous start: suspended at its
\* first await, or returned at once when there is no profile.
LoadStarted(p) ==
    [pc |-> IF p.t = "null" THEN Len(DashSteps) + 1 ELSE 1,
     ok |-> {}, failed |-> {}]

(***************************************************************************)
(* The identity-provider client (utils/supabase.js), in its two revisions, *)
(* and the Session Store operations of AuthProvider, in its three.         *)
(***************************************************************************)
ClientRevs == {"supabase.js", "part_009"}
ProviderRevs == {"AuthContext.js", "part_010", "part_011"}

\* What createClient(url, key) may do: return a client, or throw.
CreateClientOutcomes == {"client", "throws"}

\* The module has not been evaluated yet.
Unloaded(rev, configured) ==
    [rev |-> rev, configured |-> configured, kind |-> "unloaded"]

\* The `supabase` export after the module is evaluated: the real client, the
\* mock object literal, or no export because the module threw.
supabase(rev, configured, created) ==
    [rev |-> rev, configured |-> configured,
     kind |-> IF rev = "supabase.js"
              THEN IF ~configured \/ created = "throws" THEN "crashed"
                   ELSE "real"
              ELSE IF configured /\ created = "client" THEN "real"
                   ELSE "stub"]

\* Results of the client's auth methods.
AuthOk == [settled |-> "resolved", error |-> Null]
AuthError(message) == [settled |-> "resolved", error |-> Str(message)]
AuthRejected == [settled |-> "rejected", error |-> Str(<<"TypeError">>)]
Msg_NotConfigured == <<"Supabase not configured">>

StoreFns == {"signIn", "signUp", "signOut", "signInWithGoogle"}

\* What supabase.auth.<method>() may settle with, for the client in use.
AuthOutcomes(c) ==
    IF c.kind = "stub"
    THEN {AuthError(Msg_NotConfigured)}
    ELSE {AuthOk, AuthError(<<"Invalid login credentials">>), AuthRejected}

\* handleSignInWithOAuth of utils/googleAuth: supabase.auth.signInWithOAuth
\* with this application's callback route as the redirect target.
handleSignInWithOAuth(outcome) == outcome

\* signIn / signUp / signOut / signInWithGoogle of the context value: what
\* the caller's `await` gets when the client's method settles with outcome.
\* AuthContext.js and part_010 catch, log and rethrow; part_011 hands the
\* client's promise to the caller.
StoreOp(rev, fn, outcome) ==
    LET settledWith == IF rev = "AuthContext.js" /\ fn = "signInWithGoogle"
                       THEN handleSignInWithOAuth(outcome)
                       ELSE outcome
    IN
    IF settledWith.settled = "rejected"
    THEN [fn |-> fn, kind |-> "threw", error |-> settledWith.error]
    ELSE [fn |-> fn, kind |-> "returned", error |-> settledWith.error]

\* No Session Store operation has been called.
NoStoreCall == [fn |-> "none", kind |-> "none", error |-> Null]

Init ==
    /\ router \in RoutersInUse
    /\ initStored \in Users \cup {NoUser}
    /\ provSession = initStored
    /\ initPc = "pending"
    /\ events = <<>>
    /\ emitted = 0
    /\ user = NoUser
    /\ profile = NoProfile
    /\ loading = TRUE
    /\ isProfileComplete = FALSE
    /\ effectPending = FALSE
    /\ runs = EmptyBag
    /\ backend \in [Users -> UNION {BackendDocs(u) : u \in Users}]
    /\ \A u \in Users : backend[u] \in BackendDocs(u)
    /\ requests = EmptyBag
    /\ lastCall = NoCall
    /\ path \in RequestPaths
    /\ router = "App" => path \in {<<"auth", "callback">>, <<"dashboard">>}
    /\ view = ViewOfPath(path)
    /\ dash = DashMounted("part_006")
    /\ cb = CallbackMounted(NoUrlError)
    /\ mirror = StoredMirror(initStored)
    /\ client = supabase("part_009", TRUE, "client")
    /\ provider = "AuthContext.js"
    /\ subscription = "active"
    /\ store = NoStoreCall
    /\ loads = <<>>
    /\ writer = NoWriter

(***************************************************************************)
(* Identity provider: sign-in, sign-out and token refresh emit events.    *)
(***************************************************************************)
\* The client notifies its subscribers of one change before it makes the next.
\* The mock client never calls the handler it is given.
Notify(event, session) ==
    /\ client.kind = "real"
    /\ subscription # "none"
    /\ emitted < MaxEvents
    /\ events = <<>>
    /\ ~effectPending
    /\ emitted' = emitted + 1
    /\ provSession' = session
    /\ events' = IF subscription = "active"
                 THEN Append(events, [event |-> event, session |-> session])
                 ELSE events
    /\ lastCall' = NoCall
    /\ UNCHANGED <<revVars, bootVars, pageVars, storeVars, authVars, navVars,
                   initPc, initStored, runs, backend, requests>>

\* A change of session that no call of this page made (the redirect back from
\* the provider, another tab, the refresh timer).
Emit(event, session) ==
    /\ Notify(event, session)
    /\ UNCHANGED opVars

\* A sign-in completes for u (a repeated delivery of the same user's session
\* is ProviderTokenRefresh).
ProviderSignIn(u) ==
    /\ provSession # u
    /\ Emit("SIGNED_IN", u)

ProviderSignOut ==
    /\ provSession # NoUser
    /\ Emit("SIGNED_OUT", NoUser)

ProviderTokenRefresh ==
    /\ provSession # NoUser
    /\ Emit("TOKEN_REFRESHED", provSession)

\* What supabase.auth.getSession() may settle with: the stored session, the
\* provider's current one, or a rejection; the mock resolves with null.
GetSessionOutcomes ==
    IF client.kind = "stub" THEN {NoUser}
    ELSE {initStored, provSession, "rejected"}

\* getInitialSession: supabase.auth.getSession() settles.  part_011 awaits it
\* outside any try: a rejection ends the function before its two setters.
\* After the effect itself threw, the provider is unmounted and its setters
\* do nothing.
GetInitialSession ==
    /\ initPc = "pending"
    /\ ~effectPending
    /\ initPc' = "done"
    /\ \E outcome \in GetSessionOutcomes :
          IF subscription = "threw"
             \/ (outcome = "rejected" /\ provider = "part_011")
          THEN UNCHANGED <<user, effectPending, loading>>
          ELSE /\ SetUser(IF outcome = "rejected" THEN NoUser ELSE outcome)
               /\ loading' = FALSE
    /\ initStored' = NoUser
    /\ lastCall' = NoCall
    /\ UNCHANGED <<revVars, bootVars, opVars, pageVars, storeVars, provSession,
                   events, emitted, profile, isProfileComplete, runs, backend,
                   requests>>
    /\ Rerender

\* handleAuthChange(event, session); only AuthContext.js keeps the mirror.
HandleAuthChange ==
    /\ subscription = "active"
    /\ events # <<>>
    /\ ~effectPending
    /\ events' = Tail(events)
    /\ SetUser(Head(events).session)
    /\ loading' = FALSE
    /\ mirror' = IF provider = "AuthContext.js"
                 THEN MirrorAfter(Head(events).event, Head(events).session,
                                  mirror)
                 ELSE mirror
    /\ lastCall' = NoCall
    /\ UNCHANGED <<revVars, bootVars, opVars, pageVars, provSession, initPc,
                   initStored, emitted, profile, isProfileComplete, runs,
                   backend, requests>>
    /\ Rerender

\* Main's [user, setProfile] effect (App.js): a profile embedded in the
\* session's user is copied into the profile state.
MainProfileEffect(rev, usr, p) ==
    IF rev = "App" /\ usr # NoUser /\ Truthy(UserRecord(usr).profile)
    THEN UserRecord(usr).profile
    ELSE p

\* The effects of a commit in which user changed, children first: Main's
\* copy of user.profile, then manageUserProfile up to its first await.
ManageUserProfile ==
    /\ effectPending
    /\ effectPending' = FALSE
    /\ IF user # NoUser
       THEN /\ runs' = runs (+) SetToBag({[uid |-> user, pc |-> "getProfile",
                                           token |-> SessionToken]})
            /\ profile' = MainProfileEffect(router, user, profile)
            /\ UNCHANGED isProfileComplete
       ELSE /\ profile' = NoProfile
            /\ isProfileComplete' = FALSE
            /\ UNCHANGED runs
    /\ lastCall' = NoCall
    /\ UNCHANGED <<revVars, bootVars, opVars, pageVars, storeVars, provSession, initPc, initStored, events,
                   emitted, user, loading, backend, requests>>
    /\ Rerender

\* `await getProfile(user.id)` settles in run r with response resp.
GetProfileSettles(r, resp) ==
    LET res == getProfile(ApiInUse, r.token, resp) IN
    /\ ~effectPending
    /\ r.pc = "getProfile"
    /\ IF ~res.ok
       THEN /\ ReconcileCatch
            /\ runs' = runs (-) SetToBag({r})
            /\ UNCHANGED requests
       ELSE IF res.value.t = "object"
       THEN /\ ReconcileDone(res.value)
            /\ runs' = runs (-) SetToBag({r})
            /\ UNCHANGED requests
       ELSE /\ runs' = (runs (-) SetToBag({r}))
                       (+) SetToBag({[uid |-> r.uid, pc |-> "createProfile",
                                      token |-> SessionToken]})
            /\ requests' =
                 IF SessionToken # NoUser
                 THEN requests (+) SetToBag({[userId |-> r.uid,
                                  profileData |-> newProfileData(r.uid)]})
                 ELSE requests
            /\ UNCHANGED <<profile, isProfileComplete>>
    /\ lastCall' = Settled("getProfile", r, resp, res)
    /\ UNCHANGED <<revVars, bootVars, opVars, pageVars, storeVars, provSession, initPc, initStored, events,
                   emitted, user, loading, effectPending, backend>>
    /\ Rerender

\* `await createProfile(user.id, newProfileData)` settles in run r.
CreateProfileSettles(r, resp) ==
    LET res == createProfile(ApiInUse, r.token, resp) IN
    /\ ~effectPending
    /\ r.pc = "createProfile"
    /\ runs' = runs (-) SetToBag({r})
    /\ IF res.ok
       THEN /\ ReconcileDone(res.value)
            /\ backend' = [backend EXCEPT ![r.uid] = res.value]
       ELSE /\ ReconcileCatch
            /\ UNCHANGED backend
    /\ lastCall' = Settled("createProfile", r, resp, res)
    /\ UNCHANGED <<revVars, bootVars, opVars, pageVars, storeVars, provSession, initPc, initStored, events,
                   emitted, user, loading, effectPending, requests>>
    /\ Rerender

(***************************************************************************)
(* Navigation                                                              *)
(***************************************************************************)
\* The browser requests location p (address bar, link, history).
Request(p) ==
    /\ router # "App"
    /\ ~effectPending
    /\ Commit(loading, user, isProfileComplete, p, view)
    /\ lastCall' = NoCall
    /\ UNCHANGED <<revVars, bootVars, opVars, pageVars, storeVars, authVars, provSession, initPc,
                   initStored, events, emitted, runs, backend, requests>>

\* setView(v), called by the Layout's navigation (App.js).
SetView(v) ==
    /\ router = "App"
    /\ ~effectPending
    /\ ~loading /\ user # NoUser /\ view # "authCallback"
    /\ Commit(loading, user, isProfileComplete, path, v)
    /\ lastCall' = NoCall
    /\ UNCHANGED <<revVars, bootVars, opVars, pageVars, storeVars, authVars, provSession, initPc,
                   initStored, events, emitted, runs, backend, requests>>

\* The "Return to Login" button of AuthCallback's error screen.
ReturnToLogin ==
    /\ ~effectPending
    /\ ~loading
    /\ IsPage(Rendered, "AuthCallback")
    /\ CallbackScreen(CallbackOf(router), cb) = "error"
    /\ Commit(loading, user, isProfileComplete, <<"login">>, "login")
    /\ lastCall' = NoCall
    /\ UNCHANGED <<revVars, bootVars, opVars, pageVars, storeVars, authVars, provSession, initPc,
                   initStored, events, emitted, runs, backend, requests>>

Next ==
    \/ \E u \in Users : ProviderSignIn(u)
    \/ ProviderSignOut
    \/ ProviderTokenRefresh
    \/ GetInitialSession
    \/ HandleAuthChange
    \/ ManageUserProfile
    \/ \E r \in BagToSet(runs) : \E resp \in ProfileResponses(r.uid) :
          GetProfileSettles(r, resp)
    \/ \E r \in BagToSet(runs) : \E resp \in CreateResponses(r.uid) :
          CreateProfileSettles(r, resp)
    \/ \E p \in RequestPaths : Request(p)
    \/ \E v \in RequestViews : SetView(v)
    \/ ReturnToLogin

Spec == Init /\ [][Next]_vars

(***************************************************************************)
(* The application opened at /auth/callback by the provider's redirect,   *)
(* with or without error parameters; the user makes no other navigation.  *)
(***************************************************************************)
InitCallback ==
    /\ router \in RoutersInUse
    /\ initStored \in {"u1", NoUser}
    /\ provSession \in {"u1", initStored}
    /\ initPc = "pending"
    /\ events = <<>>
    /\ emitted = 0
    /\ user = NoUser
    /\ profile = NoProfile
    /\ loading = TRUE
    /\ isProfileComplete = FALSE
    /\ effectPending = FALSE
    /\ runs = EmptyBag
    /\ backend \in [Users -> UNION {BackendDocs(u) : u \in Users}]
    /\ \A u \in Users : backend[u] \in BackendDocs(u)
    /\ requests = EmptyBag
    /\ lastCall = NoCall
    /\ path = <<"auth", "callback">>
    /\ view = ViewOfPath(path)
    /\ dash = DashMounted("part_006")
    /\ cb \in {CallbackMounted(url) : url \in UrlErrors}
    /\ cb.url.enc = "none" => provSession # NoUser
    /\ mirror = StoredMirror(initStored)
    /\ client = supabase("part_009", TRUE, "client")
    /\ provider = "AuthContext.js"
    /\ subscription = "active"
    /\ store = NoStoreCall
    /\ loads = <<>>
    /\ writer = NoWriter

NextCallback ==
    \/ \E u \in Users : ProviderSignIn(u)
    \/ ProviderSignOut
    \/ ProviderTokenRefresh
    \/ GetInitialSession
    \/ HandleAuthChange
    \/ ManageUserProfile
    \/ \E r \in BagToSet(runs) : \E resp \in ProfileResponses(r.uid) :
          GetProfileSettles(r, resp)
    \/ \E r \in BagToSet(runs) : \E resp \in CreateResponses(r.uid) :
          CreateProfileSettles(r, resp)
    \/ ReturnToLogin

SpecCallback == InitCallback /\ [][NextCallback]_vars

(***************************************************************************)
(* The API client on its own: makeRequest and the exported functions      *)
(* applied to every session state and every response.                     *)
(***************************************************************************)
ApiFns ==
    {"getProfile", "createProfile", "updateProfile", "saveProfile",
     "deleteProfile", "trackApplication", "saveScholarship",
     "removeSavedScholarship", "getUserStats", "searchInstitutions",
     "getTopMatches", "getScholarshipSummary", "getScholarshipStats",
     "getUpcomingDeadlines", "getNextStepsData"}

\* The JSON document a 2xx response carries.
Payload == [t |-> "object", payload |-> "data"]

\* What fetch() can produce for a request.
ApiResponses ==
    {NetworkFailure}
    \cup {Http(status, error, data) :
            status \in {200, 404, 500},
            error \in {Undefined, Str(<<>>), Str(Msg_ServerError)},
            data \in {NotJson, Payload}}

\* The exported function fn of revision rev.
Invoke(rev, fn, token, resp) ==
    CASE fn = "getProfile" -> getProfile(rev, token, resp)
      [] fn = "createProfile" -> createProfile(rev, token, resp)
      [] fn = "updateProfile" -> updateProfile(rev, token, resp)
      [] fn = "saveProfile" -> saveProfile(rev, token, resp)
      [] fn = "deleteProfile" -> deleteProfile(rev, token, resp)
      [] fn = "trackApplication" -> trackApplication(rev, token, resp)
      [] fn = "saveScholarship" -> saveScholarship(rev, token, resp)
      [] fn = "removeSavedScholarship" ->
            removeSavedScholarship(rev, token, resp)
      [] fn = "getUserStats" -> getUserStats(rev, token, resp)
      [] fn = "searchInstitutions" -> searchInstitutions(rev, token, resp)
      [] fn = "getTopMatches" -> getTopMatches(rev, token, resp)
      [] fn = "getScholarshipSummary" ->
            getScholarshipSummary(rev, token, resp)
      [] fn = "getScholarshipStats" -> getScholarshipStats(rev, token, resp)
      [] fn = "getUpcomingDeadlines" ->
            getUpcomingDeadlines(rev, token, resp)
      [] OTHER -> getNextStepsData(rev, token, resp)

nonApiVars ==
    <<router, initPc, initStored, events, emitted, user, profile, loading,
      isProfileComplete, effectPending, runs, backend, requests, path, view,
      dash, cb, mirror, client, provider, subscription, store, loads,
      writer>>

InitApi ==
    /\ router = "part_012"
    /\ initStored = NoUser
    /\ provSession \in Users \cup {NoUser}
    /\ initPc = "pending"
    /\ events = <<>>
    /\ emitted = 0
    /\ user = NoUser
    /\ profile = NoProfile
    /\ loading = TRUE
    /\ isProfileComplete = FALSE
    /\ effectPending = FALSE
    /\ runs = EmptyBag
    /\ backend = [u \in Users |-> Absent]
    /\ requests = EmptyBag
    /\ lastCall = NoCall
    /\ path = <<"dashboard">>
    /\ view = "dashboard"
    /\ dash = DashMounted("part_006")
    /\ cb = CallbackMounted(NoUrlError)
    /\ mirror = StoredMirror(initStored)
    /\ client = supabase("part_009", TRUE, "client")
    /\ provider = "AuthContext.js"
    /\ subscription = "active"
    /\ store = NoStoreCall
    /\ loads = <<>>
    /\ writer = NoWriter

\* The provider session is replaced (sign-in, sign-out) between calls.
ApiSessionChanges(s) ==
    /\ provSession # s
    /\ provSession' = s
    /\ lastCall' = NoCall
    /\ UNCHANGED nonApiVars

\* makeRequest(endpoint, options, requireAuth) settles.
CallMakeRequest(rev, requireAuth, resp) ==
    LET res == makeRequest(rev, requireAuth, SessionToken, resp) IN
    /\ lastCall' =
          [fn |-> "makeRequest", rev |-> rev, requireAuth |-> requireAuth,
           token |-> SessionToken,
           resp |-> IF res.sent THEN resp ELSE Unsent,
           headers |-> IF res.sent
                       THEN RequestHeaders(rev, requireAuth, SessionToken)
                       ELSE [ContentType |-> "none"],
           result |-> res]
    /\ UNCHANGED <<provSession, nonApiVars>>

\* An exported function of the client settles.
CallApi(rev, fn, resp) ==
    LET res == Invoke(rev, fn, SessionToken, resp) IN
    /\ lastCall' =
          [fn |-> fn, rev |-> rev, token |-> SessionToken,
           resp |-> IF res.sent THEN resp ELSE Unsent,
           result |-> res]
    /\ UNCHANGED <<provSession, nonApiVars>>

NextApi ==
    \/ \E s \in Users \cup {NoUser} : ApiSessionChanges(s)
    \/ \E rev \in ApiRevs, requireAuth \in BOOLEAN, resp \in ApiResponses :
          CallMakeRequest(rev, requireAuth, resp)
    \/ \E rev \in ApiRevs, fn \in ApiFns, resp \in ApiResponses :
          CallApi(rev, fn, resp)

SpecApi == InitApi /\ [][NextApi]_vars

(***************************************************************************)
(* One load of the dashboard on its own.                                   *)
(***************************************************************************)
\* What fetch() produces for a dashboard request.
DashResponses ==
    {NetworkFailure, Http(500, Str(Msg_ServerError), Null),
     Http(200, Undefined, Payload)}

nonDashVars ==
    <<router, initPc, initStored, events, emitted, loading,
      isProfileComplete, effectPending, runs, backend, requests, lastCall,
      path, view, cb, mirror, client, provider, subscription, store, loads,
      writer>>

InitDash ==
    /\ router = "part_012"
    /\ initStored = NoUser
    /\ provSession \in {"u1", NoUser}
    /\ initPc = "done"
    /\ events = <<>>
    /\ emitted = 0
    /\ user \in {"u1", NoUser}
    /\ profile \in {NoProfile, Profile("u1", Str(<<"3", ".", "5">>))}
    /\ loading = FALSE
    /\ isProfileComplete = ProfileComplete(profile)
    /\ effectPending = FALSE
    /\ runs = EmptyBag
    /\ backend = [u \in Users |-> Profile(u, Str(<<"3", ".", "5">>))]
    /\ requests = EmptyBag
    /\ lastCall = NoCall
    /\ path = <<"dashboard">>
    /\ view = "dashboard"
    /\ dash \in {DashMounted(rev) : rev \in ApiRevs}
    /\ cb = CallbackMounted(NoUrlError)
    /\ mirror = StoredMirror(initStored)
    /\ client = supabase("part_009", TRUE, "client")
    /\ provider = "AuthContext.js"
    /\ subscription = "active"
    /\ store = NoStoreCall
    /\ loads = <<>>
    /\ writer = NoWriter

\* The [profile, user] effect: loadDashboardData up to its first await.
LoadDashboardData ==
    /\ dash.pc = 0
    /\ dash' = IF profile.t = "null"
               THEN [dash EXCEPT !.pc = Len(DashSteps) + 1,
                                 !.loading = FALSE, !.errors = {}]
               ELSE [dash EXCEPT !.pc = 1, !.loading = TRUE, !.errors = {}]
    /\ UNCHANGED <<provSession, user, profile, nonDashVars>>

\* The fetch loadDashboardData is waiting for settles with resp; the load
\* goes on to its next await, or ends (finally: setLoading(false)).
DashFetchSettles(resp) ==
    LET key == DashSteps[dash.pc]
        res == Invoke(dash.rev, DashFn(key), SessionToken, resp)
        last == dash.pc = Len(DashSteps)
    IN
    /\ dash.pc \in 1..Len(DashSteps)
    /\ ~(key = "userStats" /\ user = NoUser)
    /\ dash' = [dash EXCEPT
                  !.pc = dash.pc + 1,
                  !.calls = Append(dash.calls,
                               [key |-> key,
                                resp |-> IF res.sent THEN resp ELSE Unsent]),
                  !.sections = IF res.ok THEN dash.sections \cup {key}
                               ELSE dash.sections,
                  !.errors = IF res.ok THEN dash.errors
                             ELSE dash.errors \cup {key},
                  !.loading = IF last THEN FALSE ELSE dash.loading]
    /\ UNCHANGED <<provSession, user, profile, nonDashVars>>

\* if (user?.id) is false: the user-stats fetch is not made.
DashSkipUserStats ==
    /\ dash.pc \in 1..Len(DashSteps)
    /\ DashSteps[dash.pc] = "userStats"
    /\ user = NoUser
    /\ dash' = [dash EXCEPT !.pc = dash.pc + 1]
    /\ UNCHANGED <<provSession, user, profile, nonDashVars>>

NextDash ==
    \/ LoadDashboardData
    \/ \E resp \in DashResponses : DashFetchSettles(resp)
    \/ DashSkipUserStats

SpecDash == InitDash /\ [][NextDash]_vars

(***************************************************************************)
(* The dashboard while AuthProvider hands it new profile objects: the     *)
(* [profile, user] effect starts a load for each, and the loads overlap.  *)
(***************************************************************************)
MaxLoads == 2

\* What fetch() produces for a dashboard request of an overlapping load.
ReloadResponses == {NetworkFailure, Http(200, Undefined, Payload)}

\* The profile objects AuthProvider may hand down next.
ReloadProfiles == {NoProfile, Profile("u1", Str(<<"3", ".", "5">>))}

InitReload ==
    /\ router = "part_012"
    /\ initStored = NoUser
    /\ provSession = "u1"
    /\ initPc = "done"
    /\ events = <<>>
    /\ emitted = 0
    /\ user = "u1"
    /\ profile = Profile("u1", Str(<<"3", ".", "5">>))
    /\ loading = FALSE
    /\ isProfileComplete = ProfileComplete(profile)
    /\ effectPending = FALSE
    /\ runs = EmptyBag
    /\ backend = [u \in Users |-> Profile(u, Str(<<"3", ".", "5">>))]
    /\ requests = EmptyBag
    /\ lastCall = NoCall
    /\ path = <<"dashboard">>
    /\ view = "dashboard"
    /\ dash = DashMounted("part_006")
    /\ cb = CallbackMounted(NoUrlError)
    /\ mirror = StoredMirror(initStored)
    /\ client = supabase("part_009", TRUE, "client")
    /\ provider = "AuthContext.js"
    /\ subscription = "active"
    /\ store = NoStoreCall
    /\ loads = <<>>
    /\ writer = NoWriter

nonReloadVars ==
    <<router, initPc, initStored, events, emitted, loading,
      isProfileComplete, effectPending, runs, backend, requests, lastCall,
      path, view, cb, mirror, client, provider, subscription, store,
      provSession, user>>

\* AuthProvider sets the profile p (the first load runs on mount with the
\* profile held) and the [profile, user] effect calls loadDashboardData,
\* which runs to its first await -- or returns, when there is no profile.
\* Nothing stops the calls already suspended.
StartLoad(p) ==
    /\ Len(loads) < MaxLoads
    /\ loads = <<>> => p = profile
    /\ profile' = p
    /\ loads' = Append(loads, LoadStarted(p))
    /\ dash' = [dash EXCEPT !.loading = (p.t # "null"), !.errors = {}]
    /\ UNCHANGED <<writer, nonReloadVars>>

\* The fetch that call i of loadDashboardData is waiting for settles with
\* resp: its setter or its catch runs, and the call goes on to its next
\* await, or ends (finally: setLoading(false)).
LoadFetchSettles(i, resp) ==
    LET key == DashSteps[loads[i].pc]
        res == Invoke(dash.rev, DashFn(key), SessionToken, resp)
        last == loads[i].pc = Len(DashSteps)
    IN
    /\ loads[i].pc \in 1..Len(DashSteps)
    /\ loads' = [loads EXCEPT
                   ![i].pc = loads[i].pc + 1,
                   ![i].ok = IF res.ok THEN loads[i].ok \cup {key}
                             ELSE loads[i].ok,
                   ![i].failed = IF res.ok THEN loads[i].failed
                                 ELSE loads[i].failed \cup {key}]
    /\ dash' = [dash EXCEPT
                  !.sections = IF res.ok THEN dash.sections \cup {key}
                               ELSE dash.sections,
                  !.errors = IF res.ok THEN dash.errors
                             ELSE dash.errors \cup {key},
                  !.loading = IF last THEN FALSE ELSE dash.loading]
    /\ writer' = IF res.ok THEN [writer EXCEPT ![key] = i] ELSE writer
    /\ UNCHANGED <<profile, nonReloadVars>>

NextReload ==
    \/ \E p \in ReloadProfiles : StartLoad(p)
    \/ \E i \in 1..Len(loads) : \E resp \in ReloadResponses :
          LoadFetchSettles(i, resp)

SpecReload == InitReload /\ [][NextReload]_vars

(***************************************************************************)
(* Application load: the client module is evaluated, AuthProvider mounts, *)
(* and the pages call the Session Store operations.                       *)
(***************************************************************************)
InitStore ==
    /\ router = "part_012"
    /\ client \in {Unloaded(rev, configured) :
                      rev \in ClientRevs, configured \in BOOLEAN}
    /\ provider \in ProviderRevs
    /\ subscription = "none"
    /\ store = NoStoreCall
    /\ loads = <<>>
    /\ writer = NoWriter
    /\ initStored \in {"u1", NoUser}
    /\ ~client.configured => initStored = NoUser
    /\ provSession = initStored
    /\ initPc = "unmounted"
    /\ events = <<>>
    /\ emitted = 0
    /\ user = NoUser
    /\ profile = NoProfile
    /\ loading = TRUE
    /\ isProfileComplete = FALSE
    /\ effectPending = FALSE
    /\ runs = EmptyBag
    /\ backend = [u \in Users |-> Profile(u, Str(<<"3", ".", "5">>))]
    /\ requests = EmptyBag
    /\ lastCall = NoCall
    /\ path = <<"dashboard">>
    /\ view = ViewOfPath(path)
    /\ dash = DashMounted("part_006")
    /\ cb = CallbackMounted(NoUrlError)
    /\ mirror = StoredMirror(initStored)

\* index.js imports App, which imports utils/supabase: the module body runs.
LoadClient(created) ==
    /\ client.kind = "unloaded"
    /\ client' = supabase(client.rev, client.configured, created)
    /\ UNCHANGED <<revVars, provider, subscription, opVars, pageVars, storeVars,
                   authVars, navVars, provSession, initPc, initStored, events,
                   emitted, runs, backend, requests, lastCall>>

\* What supabase.auth.onAuthStateChange(handler) may do.
SubscribeOutcomes == IF client.kind = "stub" THEN {"active"} ELSE {"active", "throws"}

\* AuthProvider's mount effect: getInitialSession() is called and suspends at
\* getSession(); the handler is subscribed.  AuthContext.js and part_010
\* catch a throwing subscription and clear loading; in part_011 the effect
\* throws and the error boundary above AuthProvider replaces the tree.
MountAuthProvider(sub) ==
    /\ client.kind \in {"real", "stub"}
    /\ initPc = "unmounted"
    /\ initPc' = "pending"
    /\ subscription' = IF sub = "active" THEN "active"
                       ELSE IF provider = "part_011" THEN "threw" ELSE "failed"
    /\ loading' = IF sub = "throws" /\ provider # "part_011" THEN FALSE ELSE loading
    /\ lastCall' = NoCall
    /\ UNCHANGED <<revVars, client, provider, opVars, pageVars, storeVars, user,
                   profile, isProfileComplete, effectPending, provSession,
                   initStored, events, emitted, runs, backend, requests>>
    /\ Rerender

\* A page awaits signIn / signUp / signOut / signInWithGoogle and the client's
\* method settles with outcome.  The real client announces a completed
\* password sign-in or sign-out to its subscribers.
StoreCall(fn, outcome, u) ==
    /\ client.kind \in {"real", "stub"}
    /\ subscription \in {"active", "failed"}
    /\ ~loading
    /\ ~effectPending
    /\ IF fn = "signOut" THEN user # NoUser ELSE user = NoUser
    /\ store' = StoreOp(provider, fn, outcome)
    /\ IF outcome = AuthOk /\ fn = "signIn"
       THEN Notify("SIGNED_IN", u)
       ELSE IF outcome = AuthOk /\ fn = "signOut"
       THEN Notify("SIGNED_OUT", NoUser)
       ELSE /\ lastCall' = NoCall
            /\ UNCHANGED <<revVars, bootVars, pageVars, storeVars, authVars,
                           navVars, provSession, initPc, initStored, events,
                           emitted, runs, backend, requests>>

NextStore ==
    \/ \E created \in CreateClientOutcomes : LoadClient(created)
    \/ \E sub \in SubscribeOutcomes : MountAuthProvider(sub)
    \/ \E fn \in StoreFns : \E outcome \in AuthOutcomes(client) :
          StoreCall(fn, outcome, "u1")
    \/ ProviderTokenRefresh
    \/ GetInitialSession
    \/ HandleAuthChange
    \/ ManageUserProfile
    \/ \E r \in BagToSet(runs) : \E resp \in ProfileResponses(r.uid) :
          GetProfileSettles(r, resp)

SpecStore == InitStore /\ [][NextStore]_vars

\* The module body, the mount effect, the handler and the continuations of
\* settled promises are run by the browser's event loop once they are ready;
\* what the provider and the user do is not.
FairnessStore ==
    /\ WF_vars(\E created \in CreateClientOutcomes : LoadClient(created))
    /\ WF_vars(\E sub \in SubscribeOutcomes : MountAuthProvider(sub))
    /\ WF_vars(GetInitialSession)
    /\ WF_vars(HandleAuthChange)
    /\ WF_vars(ManageUserProfile)
    /\ WF_vars(\E r \in BagToSet(runs) : \E resp \in ProfileResponses(r.uid) :
                  GetProfileSettles(r, resp))

SpecStoreFair == SpecStore /\ FairnessStore

(***************************************************************************)
(* Properties                                                              *)
(***************************************************************************)
RoutesRevs == {"part_012", "AuthContext"}

AuthenticatedOnlyPages ==
    {"DashboardPage", "ScholarshipPage", "MatchingPage",
     "CareerForecasterPage", "CompareCollegesPage", "StudentVuePage",
     "ReportPage", "ProfilePage", "StudentProfilePage"}

PostProfilePages == AuthenticatedOnlyPages \ {"StudentProfilePage"}

\* Everything Main can put on screen in the current state: every revision,
\* every location and every view.
Renderable ==
    {MainRoutes(rev, loading, user, isProfileComplete, p) :
        rev \in RoutesRevs, p \in AllPaths}
    \cup {MainApp(loading, user, isProfileComplete, v) : v \in Views}

\* C1: in every reachable state, whichever revision of Main runs and
\* whichever location or view is requested, a page for authenticated users
\* is rendered only while the held user is non-null, and a post-profile page
\* only while isProfileComplete is true.
C1_AuthenticatedViewsGated ==
    \A m \in Renderable :
        m.el = "page" =>
            /\ m.name \in AuthenticatedOnlyPages => user # NoUser
            /\ m.name \in PostProfilePages => isProfileComplete

\* A post-profile page is on screen for a signed-in user.
C1_Witness ==
    /\ Rendered.el = "page"
    /\ Rendered.name \in PostProfilePages
    /\ user # NoUser
    /\ initPc = "done"

\* C2 as stated: the gate is Unauthenticated iff the held user is null, and
\* it is never AuthenticatedComplete while the held user is null.
C2_Original ==
    \A rev \in RouterRevs :
        LET g == GateOf(rev, loading, user, isProfileComplete) IN
        /\ g = "Unauthenticated" <=> user = NoUser
        /\ user = NoUser => g # "AuthenticatedComplete"

\* C2, amended: once the loading flag has cleared, the gate is
\* Unauthenticated iff the held user is null; it is never
\* AuthenticatedComplete while the held user is null (loading or not).
C2_UnauthenticatedIffNoSession ==
    \A rev \in RouterRevs :
        LET g == GateOf(rev, loading, user, isProfileComplete) IN
        /\ ~loading => (g = "Unauthenticated" <=> user = NoUser)
        /\ user = NoUser => g # "AuthenticatedComplete"

\* The session was cleared by a handled sign-out and the gate fell back.
C2_Witness ==
    /\ ~loading
    /\ user = NoUser
    /\ emitted > 0
    /\ events = <<>>
    /\ GateState = "Unauthenticated"

\* The requests each gate state permits, as locations ...
PermittedPaths(g) ==
    CASE g = "Unauthenticated" -> {<<"login">>, <<"auth", "callback">>}
      [] g = "AuthenticatedIncomplete" -> {<<"student-profile">>}
      [] g = "AuthenticatedComplete" ->
            {<<"dashboard">>, <<"student-profile">>, <<"scholarships">>,
             <<"matching">>, <<"forecaster">>, <<"compare">>,
             <<"studentvue">>, <<"report", "c1">>, <<"profile", "c1">>}
      [] OTHER -> {}

\* ... and as views of the view switch.
PermittedViews(g) ==
    CASE g = "Unauthenticated" -> {"login", "authCallback"}
      [] g = "AuthenticatedIncomplete" -> {"studentProfile"}
      [] g = "AuthenticatedComplete" ->
            {"dashboard", "studentProfile", "scholarships", "matching",
             "forecaster", "compare", "studentVue", "report", "profile"}
      [] OTHER -> {}

DefaultPath(g) ==
    CASE g = "Unauthenticated" -> <<"login">>
      [] g = "AuthenticatedIncomplete" -> <<"student-profile">>
      [] OTHER -> <<"dashboard">>

DefaultPage(g) ==
    CASE g = "Unauthenticated" -> "LoginPage"
      [] g = "AuthenticatedIncomplete" -> "StudentProfilePage"
      [] OTHER -> "DashboardPage"

\* The page a permitted request selects.
PageOfPath(p) ==
    CASE p = <<"login">> -> "LoginPage"
      [] p = <<"auth", "callback">> -> "AuthCallback"
      [] p = <<"student-profile">> -> "StudentProfilePage"
      [] p = <<"dashboard">> -> "DashboardPage"
      [] p = <<"scholarships">> -> "ScholarshipPage"
      [] p = <<"matching">> -> "MatchingPage"
      [] p = <<"forecaster">> -> "CareerForecasterPage"
      [] p = <<"compare">> -> "CompareCollegesPage"
      [] p = <<"studentvue">> -> "StudentVuePage"
      [] p = <<"report", "c1">> -> "ReportPage"
      [] OTHER -> "ProfilePage"

PageOfView(v) ==
    CASE v = "login" -> "LoginPage"
      [] v = "authCallback" -> "AuthCallback"
      [] v = "studentProfile" -> "StudentProfilePage"
      [] v = "dashboard" -> "DashboardPage"
      [] v = "scholarships" -> "ScholarshipPage"
      [] v = "matching" -> "MatchingPage"
      [] v = "forecaster" -> "CareerForecasterPage"
      [] v = "compare" -> "CompareCollegesPage"
      [] v = "studentVue" -> "StudentVuePage"
      [] v = "report" -> "ReportPage"
      [] OTHER -> "ProfilePage"

\* Main of part_012 serves exactly the permitted locations of the gate
\* state and redirects every other location to the state's default.
C3_RoutesGate ==
    LET g == GateOf("part_012", loading, user, isProfileComplete) IN
    ~loading =>
        \A p \in AllPaths :
            LET m == MainRoutes("part_012", loading, user,
                                isProfileComplete, p) IN
            IF p \in PermittedPaths(g)
            THEN IsPage(m, PageOfPath(p))
            ELSE IsRedirect(m, DefaultPath(g))

\* Main of App.js serves exactly the permitted views of the gate state and
\* shows the state's default page for every other view.
C3_ViewGate(exempt) ==
    LET g == GateOf("App", loading, user, isProfileComplete) IN
    ~loading =>
        \A v \in Views \ exempt :
            LET m == MainApp(loading, user, isProfileComplete, v) IN
            IF v \in PermittedViews(g)
            THEN IsPage(m, PageOfView(v))
            ELSE IsPage(m, DefaultPage(g))

\* C3 as stated: in every gate state, both cited revisions of Main honour a
\* request only when it is permitted in that state and otherwise fall back
\* to the state's default (login, student profile, dashboard).
C3_Original == C3_RoutesGate /\ C3_ViewGate({})

\* C3, amended: Main of part_012 honours a request only when it is permitted
\* in the gate state and otherwise redirects to the state's default; Main of
\* App.js does the same for every view except authCallback, which it renders
\* in every gate state once loading has cleared.
C3_RequestsHonouredWhenPermitted ==
    /\ C3_RoutesGate
    /\ C3_ViewGate({"authCallback"})
    /\ ~loading => IsPage(MainApp(loading, user, isProfileComplete,
                                  "authCallback"), "AuthCallback")

\* A signed-in user without a complete profile asked for another location
\* and was sent to /student-profile.
C3_Witness ==
    /\ ~loading
    /\ user # NoUser
    /\ ~isProfileComplete
    /\ router = "part_012"
    /\ path = <<"student-profile">>
    /\ IsPage(Rendered, "StudentProfilePage")

\* C5: while the loading flag is true, every revision of Main renders the
\* loading indicator for every location and view, /auth/callback included.
C5_LoadingPermitsNothing ==
    loading => \A m \in Renderable : IsPage(m, "Loading")

\* The browser sits on /auth/callback with a provider session present while
\* the session store is still loading.
C5_Witness ==
    /\ loading
    /\ path = <<"auth", "callback">>
    /\ emitted > 0
    /\ IsPage(Rendered, "Loading")

\* C4: whenever a user is signed in and the reconciled profile held for that
\* user has gpa = null, every revision's gate is AuthenticatedIncomplete and
\* a request for the dashboard is answered with the student-profile page
\* (a redirect to /student-profile under <Routes>).
C4_NullGpaPinsToStudentProfile ==
    (/\ user # NoUser
     /\ profile.t = "object"
     /\ profile.userId = user
     /\ profile.gpa.t = "null")
    =>
    /\ \A rev \in RouterRevs :
          GateOf(rev, loading, user, isProfileComplete)
              = "AuthenticatedIncomplete"
    /\ \A rev \in RoutesRevs :
          IsRedirect(MainRoutes(rev, loading, user, isProfileComplete,
                                <<"dashboard">>), <<"student-profile">>)
    /\ IsPage(MainApp(loading, user, isProfileComplete, "dashboard"),
              "StudentProfilePage")

\* The profile created for the signed-in user (gpa null) has been installed
\* and the browser has been moved to /student-profile.
C4_Witness ==
    /\ lastCall.fn = "createProfile"
    /\ lastCall.result.ok
    /\ user = lastCall.uid
    /\ profile.t = "object"
    /\ profile.gpa.t = "null"
    /\ router = "part_012"
    /\ path = <<"student-profile">>

\* C6 as stated: the completeness flag the reconciler holds for a profile is
\* true iff the profile's gpa is present, non-empty and not the placeholder
\* 'N/A' (the test calculateProfileCompleteness applies to a field).
C6_Original ==
    profile.t = "object" =>
        (isProfileComplete <=> FieldCompleted(profile.gpa))

\* C7 as stated: once the effect for a null session has run, the held
\* profile is null and the completeness flag false for as long as the held
\* user stays null.
C7_Original ==
    (user = NoUser /\ ~effectPending) =>
        (profile.t = "null" /\ ~isProfileComplete)

Is404(resp) == resp.kind = "http" /\ resp.status = 404

\* C8 as stated: when the backend answers the fetch with not-found while the
\* session is still present, one create request carrying the session's
\* email, name, avatar and provider has been issued and its run is in
\* flight; the created profile, once returned, is the held profile; and an
\* existing profile is installed without any create.
C8_Original ==
    /\ (lastCall.fn = "getProfile" /\ Is404(lastCall.resp)
            /\ provSession # NoUser)
        => /\ \E r \in BagToSet(runs) :
                 r.uid = lastCall.uid /\ r.pc = "createProfile"
           /\ [userId |-> lastCall.uid,
               profileData |-> newProfileData(lastCall.uid)]
                 \in BagToSet(requests)
    /\ (lastCall.fn = "getProfile" /\ lastCall.result.ok
            /\ lastCall.result.value.t = "object")
        => /\ profile = lastCall.result.value
           /\ \A r \in BagToSet(runs) :
                 r.uid = lastCall.uid => r.pc # "createProfile"
    /\ (lastCall.fn = "createProfile" /\ lastCall.result.ok)
        => profile = lastCall.result.value

\* C9 as stated: getProfile returns null exactly when the response is an
\* HTTP 404, whatever its body, and throws for every other failure.
C9_Original ==
    lastCall.fn = "getProfile" =>
        /\ (lastCall.result.ok /\ lastCall.result.value.t = "null")
               <=> Is404(lastCall.resp)
        /\ (lastCall.resp.kind # "http" \/ ~ResponseOk(lastCall.resp))
               /\ ~Is404(lastCall.resp)
               => ~lastCall.result.ok

C11_Original ==
    (user # NoUser /\ \E r \in BagToSet(runs) : r.uid = user) =>
        GateState \notin {"AuthenticatedIncomplete", "AuthenticatedComplete"}

StatusText(status) ==
    CASE status = 404 -> <<"4", "0", "4">>
      [] status = 500 -> <<"5", "0", "0">>
      [] OTHER -> <<"2", "0", "0">>

\* C12: a makeRequest call with requireAuth = true made while the session
\* has no access token throws an authentication error and calls fetch() for
\* nothing; made while the session has a token, it sends a request whose
\* Authorization header is "Bearer " followed by the current session's token.
C12_AuthRequiredFailsFast ==
    (lastCall.fn = "makeRequest" /\ lastCall.requireAuth) =>
        IF provSession = NoUser
        THEN /\ ~lastCall.result.ok
             /\ ~lastCall.result.sent
             /\ lastCall.resp.kind = "unsent"
             /\ lastCall.result.message \in {Msg_AuthFailed, Msg_AuthRequired}
        ELSE /\ lastCall.result.sent
             /\ lastCall.headers.Authorization = <<"Bearer ", SessionToken>>

\* An authenticated request was refused for want of a token.
C12_Witness ==
    /\ lastCall.fn = "makeRequest"
    /\ lastCall.requireAuth
    /\ provSession = NoUser
    /\ ~lastCall.result.sent

\* C13: for every non-2xx response makeRequest throws, with the body's
\* error message when the body carries a non-empty one and otherwise with
\* "HTTP error! status: <code>".
C13_Non2xxBecomesError ==
    (lastCall.fn = "makeRequest" /\ lastCall.resp.kind = "http"
        /\ ~(lastCall.resp.status \in 200..299)) =>
        /\ ~lastCall.result.ok
        /\ lastCall.result.message =
              IF lastCall.resp.error.t = "string"
                   /\ lastCall.resp.error.s # <<>>
              THEN lastCall.resp.error.s
              ELSE Msg_HttpError \o StatusText(lastCall.resp.status)

\* A 500 whose body carries an error message was turned into that error.
C13_Witness ==
    /\ lastCall.fn = "makeRequest"
    /\ lastCall.resp.kind = "http"
    /\ lastCall.resp.status = 500
    /\ lastCall.resp.error.t = "string"
    /\ lastCall.resp.error.s = Msg_ServerError
    /\ ~lastCall.result.ok
    /\ lastCall.result.message = Msg_ServerError

\* The request behind the settled call failed: no token, no response, a
\* non-2xx response or a body that is not JSON.
CallFailed ==
    \/ lastCall.resp.kind \in {"unsent", "network"}
    \/ /\ lastCall.resp.kind = "http"
       /\ \/ ~(lastCall.resp.status \in 200..299)
          \/ lastCall.resp.data.t = "not-json"

\* C14 as stated: a failing getScholarshipStats call returns, without
\* throwing, an object whose totalEligible field is 0.
C14_Original ==
    (lastCall.fn = "getScholarshipStats" /\ CallFailed) =>
        /\ lastCall.result.ok
        /\ "totalEligible" \in DOMAIN lastCall.result.value
        /\ lastCall.result.value.totalEligible = Num(0)

StateChangingFns ==
    {"createProfile", "updateProfile", "saveProfile", "deleteProfile",
     "trackApplication", "saveScholarship", "removeSavedScholarship"}

ReadOnlyAggregateFns ==
    {"getTopMatches", "getScholarshipStats", "getUpcomingDeadlines",
     "getUserStats", "searchInstitutions"}

\* C15 as stated, for the client of src/src/services/api.js: a failing
\* state-changing call throws, and a failing read-only aggregate call
\* returns a value instead of throwing.
C15_Original ==
    (lastCall.fn \in ApiFns /\ lastCall.rev = "api.js" /\ CallFailed) =>
        /\ lastCall.fn \in StateChangingFns => ~lastCall.result.ok
        /\ lastCall.fn \in ReadOnlyAggregateFns => lastCall.result.ok

\* The fetches of the load whose request failed.
DashFailed ==
    {dash.calls[i].key : i \in
        {j \in 1..Len(dash.calls) :
            \/ dash.calls[j].resp.kind \in {"unsent", "network"}
            \/ /\ dash.calls[j].resp.kind = "http"
               /\ ~(dash.calls[j].resp.status \in 200..299)}}

DashIssued == {dash.calls[i].key : i \in 1..Len(dash.calls)}

\* C16 as stated, for the dashboard linked against the client of part_006:
\* when a load made with a profile and a user has ended, all fetches were
\* issued, the sections populated are those of the fetches
\* that did not fail, the keys of the errors object are exactly the failed
\* fetches, and loading is false.
C16_Original ==
    (dash.pc = Len(DashSteps) + 1 /\ dash.rev = "part_006"
        /\ profile.t = "object" /\ user # NoUser) =>
        /\ DashIssued = DashKeys
        /\ dash.sections = DashKeys \ DashFailed
        /\ dash.errors = DashFailed
        /\ ~dash.loading

\* C17 as stated: when the callback URL carries error=access_denied in its
\* query string or in its fragment, AuthCallback, once it is on screen with
\* loading cleared, shows its error screen (never the processing or success
\* screen), and it never calls setView/navigate to the dashboard or the
\* student profile: the view switch stays on the callback until the user
\* returns to login.
C17_Original ==
    cb.url.enc # "none" =>
        /\ (~loading /\ IsPage(Rendered, "AuthCallback")) =>
              CallbackScreen(CallbackOf(router), cb) = "error"
        /\ router = "App" => view \in {"authCallback", "login"}

\* C18 as stated: while loading is true AuthCallback is in no error state,
\* and it shows the generic authentication failure only with loading false,
\* no user and no error parameter in the URL.
C18_Original ==
    /\ loading => cb.error = <<>>
    /\ cb.error = <<"Authentication failed">> =>
          /\ ~loading
          /\ user = NoUser
          /\ cb.url.enc = "none"

\* The location the browser shows: the path under <Routes>, the view under
\* the view switch.
AtDashboard ==
    IF router = "App" THEN view = "dashboard" ELSE path = <<"dashboard">>
AtStudentProfile ==
    IF router = "App" THEN view = "studentProfile"
    ELSE path = <<"student-profile">>

\* Nothing is pending: the session fetch has resolved, every event has been
\* handled and no reconcile run is in flight.
Quiescent ==
    /\ initPc = "done"
    /\ events = <<>>
    /\ ~effectPending
    /\ runs = EmptyBag

\* C19 as stated: a user who came back through /auth/callback without error
\* parameter and whose session and profile are established ends on the
\* dashboard when the completeness flag is true and on the student profile
\* when it is false.
C19_Original ==
    (/\ cb.url.enc = "none"
     /\ Quiescent
     /\ user # NoUser
     /\ profile.t = "object"
     /\ profile.userId = user)
    => IF isProfileComplete THEN AtDashboard ELSE AtStudentProfile

\* C20: once a SIGNED_OUT event has been handled and until the next event,
\* localStorage holds no "user" item (the provider session is null after
\* at least one event exactly when the latest event is a sign-out).
C20_MirrorClearedOnSignOut ==
    (emitted > 0 /\ provSession = NoUser /\ events = <<>>) =>
        mirror.t = "absent"

\* The mirror written at sign-in was removed by the sign-out that followed.
C20_Witness ==
    /\ emitted >= 2
    /\ provSession = NoUser
    /\ events = <<>>
    /\ user = NoUser
    /\ mirror.t = "absent"

\* C21: signIn, signUp, signOut and signInWithGoogle report every failure of
\* the client's method as a returned result; the caller's await never throws.
C21_Original == store.kind # "threw"

\* C22: with the provider URL or key absent, loading the application selects
\* the disabled stub and does not crash; once getSession has settled the
\* loading flag is clear, the gate is Unauthenticated, and every Session
\* Store operation called has returned an error result.
C22_Original ==
    (client.kind # "unloaded" /\ ~client.configured) =>
        /\ client.kind = "stub"
        /\ initPc = "done" => (~loading /\ GateState = "Unauthenticated")
        /\ store.fn # "none" => (store.kind = "returned" /\ Truthy(store.error))

\* C23: a profile installed by manageUserProfile is the profile of the user
\* held at that moment: no fetch or creation started for one user installs
\* its result once the held user is null or another user.
C23_Original ==
    [][(profile' # profile /\ profile'.t = "object")
          => profile'.userId = user']_vars

\* C24: while the gate is AuthenticatedComplete the held user's own backend
\* profile exists and has a non-empty gpa.
C24_Original ==
    GateState = "AuthenticatedComplete" =>
        (backend[user].t = "object" /\ Truthy(backend[user].gpa))

\* C25: whenever no reconciliation is scheduled or in flight, the completeness
\* flag is the completeness predicate of the held profile (false for null).
C25_FlagFollowsProfile ==
    (runs = EmptyBag /\ ~effectPending) =>
        isProfileComplete = ProfileComplete(profile)

\* Main has copied the profile embedded in u2's session user and the
\* reconciliation that ran with it has finished with a complete profile.
C25_Witness ==
    /\ router = "App"
    /\ user = "u2"
    /\ Truthy(UserRecord(user).profile)
    /\ runs = EmptyBag /\ ~effectPending
    /\ lastCall.fn = "getProfile"
    /\ profile.t = "object"
    /\ isProfileComplete

\* C26: once the application has loaded, the loading flag eventually becomes
\* false, whatever getSession and the subscription do, and a false loading
\* flag never becomes true again.
C26_Original ==
    /\ (client.kind \in {"real", "stub"}) ~> ~loading
    /\ [][~loading => ~loading']_vars

\* C27: once getSession has settled and every emitted auth event has been
\* handled, the held user is the user of the latest auth event.
C27_Original ==
    (initPc = "done" /\ events = <<>> /\ emitted > 0) => user = provSession

\* C28: for each user at most one POST /profile is ever sent by the
\* reconciler, however often the provider re-delivers that user's session.
C28_Original ==
    \A u \in Users :
        CopiesIn([userId |-> u, profileData |-> newProfileData(u)],
                 requests) <= 1

\* AuthCallback is on screen showing the generic authentication failure.
FailureScreen ==
    /\ IsPage(Rendered, "AuthCallback")
    /\ CallbackScreen(CallbackOf(router), cb) = "error"
    /\ cb.error = <<"Authentication failed">>

\* C29: when AuthCallback shows the authentication failure because loading
\* cleared with no session (and no error parameter), the step that installs
\* a session leaves the failure screen and ends on the dashboard or on the
\* student profile.
C29_SessionEventLeavesFailure ==
    [][(/\ cb.url.enc = "none"
        /\ ~loading /\ user = NoUser
        /\ FailureScreen
        /\ user' # NoUser)
       => /\ ~FailureScreen'
          /\ AtDashboard' \/ AtStudentProfile']_vars

\* The failure screen is showing and an event carrying a session has been
\* emitted and is about to be handled.
C29_Witness ==
    /\ cb.url.enc = "none"
    /\ ~loading /\ user = NoUser
    /\ FailureScreen
    /\ events # <<>>
    /\ Head(events).session # NoUser

\* The call of loadDashboardData started last, and whether it has ended.
LastLoad == loads[Len(loads)]
LoadEnded(l) == l.pc = Len(DashSteps) + 1

\* C30: with overlapping loads, loading is not false while the load started
\* last is still running, and once every load has ended each section the
\* last load fetched shows that load's result and the error set is the
\* last load's.
C30_Original ==
    loads # <<>> =>
        /\ ~dash.loading => LoadEnded(LastLoad)
        /\ (\A i \in 1..Len(loads) : LoadEnded(loads[i])) =>
              /\ \A key \in LastLoad.ok : writer[key] = Len(loads)
              /\ dash.errors = LastLoad.failed

====
